---- MODULE Spec2Model ----
(***************************************************************************)
(* pycc: the checker registry (pycc/core.py), the command checker          *)
(* (pycc/core.py), the check runner (pycc/runner.py) and the run path of   *)
(* the command line entry point (pycc/cli.py), as one state machine.       *)
(*                                                                         *)
(* Strings that the program composes or inspects (error messages, captured *)
(* output) are sequences of words, so that "the message mentions X" is a   *)
(* property of the value.  The empty string is <<>>.                       *)
(***************************************************************************)
EXTENDS Integers, Sequences, FiniteSets, TLC

\* ------------------------------------------------------------------ bounds
\* length of the list given to --check
MaxRequest == 2

\* names a caller may register, and names a request may contain
RegNames == {"fmt", "lint"}
RequestNames == RegNames \cup {"missing"}
Kinds == {"command", "custom"}

\* -------------------------------------------------------- program constants
\* subprocess.run(..., timeout=300) in CommandChecker.check
CheckTimeout == 300
\* default of --timeout and of CheckRunner(timeout=...)
DefaultTimeout == 300
\* values of --timeout a caller may give: the default and an override
TimeoutChoices == {DefaultTimeout, 1}

\* ------------------------------------------------------------ CheckStatus
PASSED == "passed"
FAILED == "failed"
SKIPPED == "skipped"
ERROR == "error"
CheckStatus == {PASSED, FAILED, SKIPPED, ERROR}

\* CheckResult dataclass; output and error default to "", duration to 0.0
CheckResult(name, status, output, error, duration) ==
    [name |-> name, status |-> status, output |-> output,
     error |-> error, duration |-> duration]

\* ------------------------------------------------------------ environment
\* What one call of check() meets.  kind "exit": the child process runs for
\* `time` seconds and exits with returncode; "oserror": the launch fails
\* with an OSError; "interrupt": KeyboardInterrupt is delivered during the
\* call; "return": a custom check() returns a result; "raise": a custom
\* check() raises an Exception.
Behaviour(kind, returncode, stdout, stderr, time, msg) ==
    [kind |-> kind, returncode |-> returncode, stdout |-> stdout,
     stderr |-> stderr, time |-> time, msg |-> msg]

CommandBehaviours ==
    { Behaviour("exit", 0, <<"ok">>, <<"warn">>, 2, <<>>),
      Behaviour("exit", 1, <<"findings">>, <<"bad">>, 2, <<>>),
      Behaviour("exit", 0, <<"ok">>, <<>>, CheckTimeout + 100, <<>>),
      Behaviour("oserror", 0, <<>>, <<>>, 0, <<"Permission", "denied">>),
      Behaviour("interrupt", 0, <<>>, <<>>, 0, <<>>) }

CustomBehaviours ==
    { Behaviour("return", 0, <<"clean">>, <<>>, 0, <<>>),
      Behaviour("return", 1, <<"Found", "TODO">>, <<>>, 0, <<>>),
      Behaviour("raise", 0, <<>>, <<>>, 0, <<"boom">>),
      Behaviour("interrupt", 0, <<>>, <<>>, 0, <<>>) }

NoBehaviour == Behaviour("none", 0, <<>>, <<>>, 0, <<>>)

BehavioursOf(kind) ==
    IF kind = "command" THEN CommandBehaviours ELSE CustomBehaviours

\* What one call of is_available() meets.  For a command checker, the
\* outcome of running [command, "--version"]; for a custom checker, what its
\* own is_available() does.
CommandProbes == {"exit0", "exit1", "timeout", "notfound", "oserror"}
CustomProbes == {"true", "false", "raise"}
Probes == CommandProbes \cup CustomProbes

ProbesOf(kind) == IF kind = "command" THEN CommandProbes ELSE CustomProbes

\* ----------------------------------------------------------------- helpers
Range(s) == { s[i] : i \in 1..Len(s) }

SeqsUpTo(S, n) == UNION { [1..k -> S] : k \in 0..n }

RECURSIVE SelectNames(_, _)
SelectNames(s, keep) ==
    IF s = <<>> THEN <<>>
    ELSE IF Head(s) \in keep THEN <<Head(s)>> \o SelectNames(Tail(s), keep)
         ELSE SelectNames(Tail(s), keep)

RECURSIVE CountStatus(_, _)
CountStatus(rs, st) ==
    IF rs = <<>> THEN 0
    ELSE (IF Head(rs).status = st THEN 1 ELSE 0) + CountStatus(Tail(rs), st)

VARIABLES
    checkers,           \* registry._checkers: sequence of [name, kind], in
                        \* insertion order, names unique
    pc,                 \* position of the process
    args,               \* the parsed command line
    exitCode,           \* exit status of the process, -1 while running
    checker_names,      \* main's checkers_to_run, the request of run_checks
    runner,             \* the CheckRunner fields
    all_checkers,       \* run_checks: snapshot of the registry
    available_checkers, \* run_checks: names whose probe returned true
    filterIdx,          \* run_checks: index of the first loop
    checkers_to_run,    \* run_checks: names that passed the filter
    runIdx,             \* run_checks: index of the second loop
    behaviour,          \* what the check() call in progress meets
    results,            \* run_checks: the result list
    printed,            \* lines written to standard output
    checkCalls          \* check() invocations per checker name

VARIABLES
    project_path,       \* what main found the project path to be
    probeCalls,         \* is_available() calls per checker name made by
                        \* the run_checks call in progress
    report,             \* the document get_json_results last built
    selected_categories, \* argument of get_checkers_for_categories
    category_checkers,  \* its last return value
    registered,         \* the checkers given to register(), in call order
    snapshot,           \* a dict a caller got from get_all_checkers()
    description,        \* the description attribute of every checker
                        \* object made so far, by object identity
    available_result,   \* what get_available_checkers() last returned
    probed,             \* registry and probe outcomes of that call
    files,              \* the files of the project directory
    files_before,       \* the files when the latest generate_all began
    config_files        \* ConfigGenerator.config_files

\* the variables of the callers of the library functions outside a run
\* the variables of config generation
genVars == <<files, files_before, config_files>>

libVars == <<report, selected_categories, category_checkers, registered,
             snapshot, description, available_result, probed, genVars>>

vars == <<checkers, pc, args, exitCode, checker_names, runner,
          all_checkers, available_checkers, filterIdx, checkers_to_run,
          runIdx, behaviour, results, printed, checkCalls, probeCalls,
          project_path, libVars>>


\* ---------------------------------------------------------------- registry
RegistryNames(reg) == [i \in 1..Len(reg) |-> reg[i].name]

\* a registration that keeps the checker a name already has
register_KeepFirst(reg, checker) ==
    IF \E i \in 1..Len(reg) : reg[i].name = checker.name
    THEN reg
    ELSE Append(reg, checker)

\* CheckerRegistry.register: self._checkers[checker.name] = checker.  A dict
\* keeps the position of a key that is assigned again.
register(reg, checker) ==
    IF \E i \in 1..Len(reg) : reg[i].name = checker.name
    THEN [i \in 1..Len(reg) |->
            IF reg[i].name = checker.name THEN checker ELSE reg[i]]
    ELSE Append(reg, checker)

\* CheckerRegistry.get_all_checkers: a copy of the dict
get_all_checkers(reg) == reg

\* CommandChecker.is_available: true on exit code 0; false on a non-zero
\* exit code, TimeoutExpired and FileNotFoundError; any other exception of
\* subprocess.run is not caught.
CommandChecker_is_available(probe) ==
    CASE probe = "exit0" -> "true"
      [] probe \in {"exit1", "timeout", "notfound"} -> "false"
      [] OTHER -> "raise"

\* is_available() of the checker: the command checker's, or whatever the
\* custom checker's own method does
is_available(checker, probe) ==
    IF checker.kind = "command" THEN CommandChecker_is_available(probe)
    ELSE probe

\* one probe per registered checker, in registry order
ProbeAssignments(reg) ==
    { f \in [1..Len(reg) -> Probes] :
        \A i \in 1..Len(reg) : f[i] \in ProbesOf(reg[i].kind) }

\* how often get_available_checkers calls is_available() of the checker
\* registered under each name: once for every entry up to and including
\* the first whose call raises
ProbeCalls(reg, f) ==
    [n \in RegNames |->
        Cardinality({ i \in 1..Len(reg) :
            /\ reg[i].name = n
            /\ \A j \in 1..(i - 1) : is_available(reg[j], f[j]) # "raise" })]

\* the comprehension without its condition
get_available_checkers_NoFilter(reg, f) ==
    IF \E i \in 1..Len(reg) : is_available(reg[i], f[i]) = "raise"
    THEN [raised |-> TRUE, keys |-> <<>>, items |-> <<>>]
    ELSE [raised |-> FALSE, keys |-> RegistryNames(reg), items |-> reg]

\* CheckerRegistry.get_available_checkers: the dict comprehension calls
\* is_available() on every entry; an exception of any call leaves the
\* comprehension.
get_available_checkers(reg, f) ==
    LET names == { reg[i].name : i \in { j \in 1..Len(reg) :
                                    is_available(reg[j], f[j]) = "true" } }
        Kept(checker) == checker.name \in names
    IN  IF \E i \in 1..Len(reg) : is_available(reg[i], f[i]) = "raise"
        THEN [raised |-> TRUE, keys |-> <<>>, items |-> <<>>]
        ELSE [raised |-> FALSE,
              keys |-> SelectNames(RegistryNames(reg), names),
              items |-> SelectSeq(reg, Kept)]

CheckerNamed(reg, name) ==
    reg[CHOOSE i \in 1..Len(reg) : reg[i].name = name]

\* Python's None, where a checker is expected
None == [name |-> "None", kind |-> "None", id |-> 0]

\* CheckerRegistry.get_checker: self._checkers.get(name)
get_checker(reg, name) ==
    IF \E i \in 1..Len(reg) : reg[i].name = name
    THEN CheckerNamed(reg, name)
    ELSE None

\* ----------------------------------------------------------------- checker
\* subprocess.run(cmd, capture_output=True, text=True, timeout=timeout)
SubprocessRun(b, timeout) ==
    CASE b.kind = "exit" /\ b.time > timeout ->
            [exc |-> "TimeoutExpired", returncode |-> 0, stdout |-> <<>>,
             stderr |-> <<>>, elapsed |-> timeout, msg |-> <<>>]
      [] b.kind = "exit" /\ b.time <= timeout ->
            [exc |-> "none", returncode |-> b.returncode,
             stdout |-> b.stdout, stderr |-> b.stderr, elapsed |-> b.time,
             msg |-> <<>>]
      [] b.kind = "oserror" ->
            [exc |-> "OSError", returncode |-> 0, stdout |-> <<>>,
             stderr |-> <<>>, elapsed |-> 0, msg |-> b.msg]
      [] OTHER ->
            [exc |-> "KeyboardInterrupt", returncode |-> 0, stdout |-> <<>>,
             stderr |-> <<>>, elapsed |-> 0, msg |-> <<>>]

NoResult == CheckResult("", ERROR, <<>>, <<>>, 0)

Returned(result) == [raised |-> "none", result |-> result, msg |-> <<>>]
Raised(exc, msg) == [raised |-> exc, result |-> NoResult, msg |-> msg]

\* an error text that does not say what happened
TimeoutMessage_Generic == <<"Check", "failed">>

\* CommandChecker.check, the error of the TimeoutExpired handler
TimeoutMessage == <<"Check", "timed", "out", "after", "5", "minutes">>

\* CommandChecker.check that passes stderr on whatever the exit code is
CommandChecker_check_KeepStderr(name, b) ==
    LET run == SubprocessRun(b, CheckTimeout) IN
    CASE run.exc = "none" ->
            Returned(CheckResult(name,
                                 IF run.returncode = 0 THEN PASSED ELSE FAILED,
                                 run.stdout, run.stderr, run.elapsed))
      [] run.exc = "TimeoutExpired" ->
            Returned(CheckResult(name, ERROR, <<>>, TimeoutMessage,
                                 run.elapsed))
      [] run.exc = "OSError" ->
            Returned(CheckResult(name, ERROR, <<>>, run.msg, run.elapsed))
      [] OTHER -> Raised("KeyboardInterrupt", <<>>)

\* CommandChecker.check
CommandChecker_check(name, b) ==
    LET run == SubprocessRun(b, CheckTimeout) IN
    CASE run.exc = "none" /\ run.returncode = 0 ->
            Returned(CheckResult(name, PASSED, run.stdout, <<>>, run.elapsed))
      [] run.exc = "none" /\ run.returncode # 0 ->
            Returned(CheckResult(name, FAILED, run.stdout, run.stderr,
                                 run.elapsed))
      [] run.exc = "TimeoutExpired" ->
            Returned(CheckResult(name, ERROR, <<>>, TimeoutMessage,
                                 run.elapsed))
      [] run.exc = "OSError" ->
            Returned(CheckResult(name, ERROR, <<>>, run.msg, run.elapsed))
      [] OTHER -> Raised("KeyboardInterrupt", <<>>)

\* check() of a checker derived from BaseChecker outside the package, as in
\* examples/custom_checker.py: a result without error text or duration, or
\* an exception
CustomChecker_check(name, b) ==
    CASE b.kind = "return" /\ b.returncode = 0 ->
            Returned(CheckResult(name, PASSED, b.stdout, <<>>, 0))
      [] b.kind = "return" /\ b.returncode # 0 ->
            Returned(CheckResult(name, FAILED, b.stdout, <<>>, 0))
      [] b.kind = "raise" -> Raised("Exception", b.msg)
      [] OTHER -> Raised("KeyboardInterrupt", <<>>)

check(checker, b) ==
    IF checker.kind = "command" THEN CommandChecker_check(checker.name, b)
    ELSE CustomChecker_check(checker.name, b)

\* ------------------------------------------------------------------ runner
\* _run_single_check without its try/except
run_single_check_NoCatch(checker, b) == check(checker, b)

\* CheckRunner._run_single_check, the try/except around checker.check:
\* `except Exception` catches what derives from Exception, and
\* KeyboardInterrupt does not.
run_single_check(checker, b) ==
    LET r == check(checker, b) IN
    IF r.raised = "Exception"
    THEN Returned(CheckResult(checker.name, ERROR, <<>>,
                              <<"Unexpected", "error:">> \o r.msg, 0))
    ELSE r

\* FilterOutcome without the test `name not in available_checkers`
FilterOutcome_NoAvailabilityTest(name, all, available) ==
    IF name \notin Range(RegistryNames(all)) THEN "not_found" ELSE "run"

\* FilterOutcome that treats an unregistered name like an unavailable one
FilterOutcome_UnknownIsSkipped(name, all, available) ==
    IF name \notin Range(RegistryNames(all)) \/ name \notin available
    THEN "not_available"
    ELSE "run"

\* run_checks, the two tests of the filter loop on one requested name
FilterOutcome(name, all, available) ==
    IF name \notin Range(RegistryNames(all)) THEN "not_found"
    ELSE IF name \notin available THEN "not_available"
    ELSE "run"

NotAvailableError(name) == <<"Checker", name, "is", "not", "available">>

SkippedResult(name) ==
    CheckResult(name, SKIPPED, <<>>, NotAvailableError(name), 0)

NotFoundWarning(name) == <<"Warning:", "Checker", name, "not", "found">>
NotAvailableWarning(name) ==
    <<"Warning:", "Checker", name, "is", "not", "available",
      "(not", "installed)">>
RunningHeader(name) == <<"===", "Running", name, "===">>

\* a report that says only that the check is over, not how it ended
print_check_result_NoStatus(result, verbose) ==
    << <<"done", result.name>> >>

\* CheckRunner._print_check_result: the lines it prints for one result
print_check_result(result, verbose) ==
    CASE result.status = PASSED -> << <<"passed", result.name>> >>
      [] result.status = FAILED ->
            << <<"failed", result.name>> >> \o
            (IF verbose /\ result.error # <<>>
             THEN << <<"Error:">> \o result.error >> ELSE <<>>)
      [] result.status = ERROR ->
            << <<"error", result.name>> >> \o
            (IF result.error # <<>>
             THEN << <<"Error:">> \o result.error >> ELSE <<>>)
      [] OTHER ->
            << <<"skipped", result.name>> >> \o
            (IF result.error # <<>>
             THEN << <<"Reason:">> \o result.error >> ELSE <<>>)

\* the exit code taken from the failed count alone
ExitCodeFor_FailedOnly(failed_count, error_count) ==
    IF failed_count > 0 THEN 1 ELSE 0

\* main: sys.exit(1) if a check failed or ended in an error, else sys.exit(0)
ExitCodeFor(failed_count, error_count) ==
    IF failed_count > 0 \/ error_count > 0 THEN 1 ELSE 0

\* utils.print_summary
print_summary(rs, failed_count, error_count) ==
    << <<"Summary:">>,
       <<"Total", ToString(Len(rs))>>,
       <<"Passed", ToString(CountStatus(rs, PASSED))>>,
       <<"Failed", ToString(failed_count)>>,
       <<"Errors", ToString(error_count)>>,
       <<"Skipped", ToString(CountStatus(rs, SKIPPED))>>,
       IF failed_count > 0 \/ error_count > 0
       THEN <<"Some", "checks", "failed!">>
       ELSE <<"All", "checks", "passed!">> >>


\* the report of one result, result.status.value for the status
JsonResult(r) ==
    [name |-> r.name, status |-> r.status, duration |-> r.duration,
     output |-> r.output, error |-> r.error]

\* get_json_results with the count of Failed results also under "error"
get_json_results_ErrorIsFailed(rs, path, now) ==
    [project_path |-> path,
     timestamp |-> now,
     results |-> [i \in 1..Len(rs) |-> JsonResult(rs[i])],
     summary |-> [total |-> Len(rs),
                  passed |-> CountStatus(rs, PASSED),
                  failed |-> CountStatus(rs, FAILED),
                  error |-> CountStatus(rs, FAILED),
                  skipped |-> CountStatus(rs, SKIPPED)]]

\* CheckRunner.get_json_results: the document that json.dumps writes out,
\* for the runner's project path and the time of the call
get_json_results(rs, path, now) ==
    [project_path |-> path,
     timestamp |-> now,
     results |-> [i \in 1..Len(rs) |-> JsonResult(rs[i])],
     summary |-> [total |-> Len(rs),
                  passed |-> CountStatus(rs, PASSED),
                  failed |-> CountStatus(rs, FAILED),
                  error |-> CountStatus(rs, ERROR),
                  skipped |-> CountStatus(rs, SKIPPED)]]

NoReport == get_json_results(<<>>, "", 0)

\* no return value of get_available_checkers yet
NoAvailable == [returned |-> FALSE, items |-> <<>>]

\* no return value of get_all_checkers yet
NoSnapshot == [taken |-> FALSE, items |-> <<>>]

\* -------------------------------------------------------------- categories
\* a table that leaves the complexity tools out
get_checkers_by_category_NoComplexity ==
    [format     |-> <<"black", "isort">>,
     lint       |-> <<"flake8", "pylint">>,
     type       |-> <<"mypy">>,
     security   |-> <<"bandit", "safety">>,
     docs       |-> <<"pydocstyle">>]

\* get_checkers_by_category: the fixed table
get_checkers_by_category ==
    [format     |-> <<"black", "isort">>,
     lint       |-> <<"flake8", "pylint">>,
     type       |-> <<"mypy">>,
     security   |-> <<"bandit", "safety">>,
     docs       |-> <<"pydocstyle">>,
     complexity |-> <<"vulture", "radon">>]

Categories == DOMAIN get_checkers_by_category

\* list(a set): the elements once each, in an order the language does not
\* fix; also the orders in which a for loop can visit a set
ListsOfSet(S) ==
    { l \in [1..Cardinality(S) -> S] :
        \A i, j \in 1..Cardinality(S) : l[i] = l[j] => i = j }

\* a loop step that assigns the category's list instead of extending by it
Extend_Overwrite(checkers_so_far, category) ==
    IF category \in Categories
    THEN get_checkers_by_category[category]
    ELSE checkers_so_far

\* get_checkers_for_categories, one loop step:
\* if category in categories: checkers.extend(categories[category])
Extend(checkers_so_far, category) ==
    IF category \in Categories
    THEN checkers_so_far \o get_checkers_by_category[category]
    ELSE checkers_so_far

\* get_checkers_for_categories, the loop over the set in visiting order
RECURSIVE ExtendAll(_)
ExtendAll(order) ==
    IF order = <<>> THEN <<>>
    ELSE Extend(ExtendAll(SubSeq(order, 1, Len(order) - 1)),
                order[Len(order)])

\* get_checkers_for_categories: every list that list(set(checkers)) can be
\* for some visiting order of the selected set
get_checkers_for_categories(selected) ==
    UNION { ListsOfSet(Range(ExtendAll(order))) :
              order \in ListsOfSet(selected) }

\* --------------------------------------------------------------------- cli
\* what the project path is when main looks at it: a directory, nothing,
\* or something that is not a directory
PathStates == {"dir", "missing", "file"}

\* --verbose only adds the error text under a failed check's progress line;
\* the runs explored are those without it
VerboseChoices == {FALSE}

\* what parse_args() can return on the run path: --all, or --check with at
\* least one name (nargs="+"), or none of the required group's actions;
\* args.check is <<>> when --check is not given
\* cats are the category flags given (--format, --lint, ...); main looks at
\* them only when neither --all nor --check is given, so they are recorded
\* for those command lines only
RunArgs ==
    { a \in [action : {"all", "check"},
             check : SeqsUpTo(RequestNames, MaxRequest),
             cats : {{}},
             verbose : VerboseChoices, quiet : BOOLEAN, json : BOOLEAN,
             timeout : TimeoutChoices] :
        (a.action = "check") <=> (a.check # <<>>) }

\* the command lines without an action of the required group
NoActionArgs ==
    [action : {"none"}, check : {<<>>}, cats : SUBSET Categories,
     verbose : VerboseChoices, quiet : BOOLEAN, json : BOOLEAN,
     timeout : TimeoutChoices]

ArgsSet == RunArgs \cup NoActionArgs

NoArgs == [action |-> "none", check |-> <<>>, cats |-> {},
           verbose |-> FALSE, quiet |-> FALSE, json |-> FALSE,
           timeout |-> DefaultTimeout]

\* CheckRunner.__init__ defaults
NoRunner == [verbose |-> FALSE, quiet |-> FALSE, json_output |-> FALSE,
             timeout |-> DefaultTimeout]

\* nothing of main or run_checks has happened
ProcessIdle ==
    /\ args = NoArgs
    /\ exitCode = -1
    /\ checker_names = <<>>
    /\ runner = NoRunner
    /\ all_checkers = <<>>
    /\ available_checkers = {}
    /\ filterIdx = 1
    /\ checkers_to_run = <<>>
    /\ runIdx = 1
    /\ behaviour = NoBehaviour
    /\ printed = <<>>
    /\ checkCalls = [n \in RegNames |-> 0]
    /\ probeCalls = [n \in RegNames |-> 0]
    /\ project_path = "unknown"

\* no ConfigGenerator has been made
ConfigIdle ==
    /\ files = <<>>
    /\ files_before = <<>>
    /\ config_files = <<>>

MainIdle == ProcessIdle /\ ConfigIdle

\* no registry function has been called
RegistryIdle ==
    /\ registered = <<>>
    /\ snapshot = NoSnapshot
    /\ description = <<>>
    /\ available_result = NoAvailable
    /\ probed = [reg |-> <<>>, f |-> <<>>]

Init ==
    /\ checkers = <<>>
    /\ pc = "import"
    /\ results = <<>>
    /\ MainIdle
    /\ RegistryIdle
    /\ report = NoReport
    /\ selected_categories = {}
    /\ category_checkers = <<>>

runVars == <<all_checkers, available_checkers, filterIdx, checkers_to_run,
             runIdx, behaviour, results, printed, checkCalls, probeCalls>>

\* registry.register(checker), before main() is entered
Register(n, k) ==
    /\ pc = "import"
    /\ UNCHANGED <<project_path, libVars>>
    /\ checkers' = register(checkers, [name |-> n, kind |-> k])
    /\ UNCHANGED <<pc, args, exitCode, checker_names, runner, runVars>>

\* main: parser.parse_args() with an action of the required group
ParseArgs ==
    /\ pc = "import"
    /\ UNCHANGED <<project_path, libVars>>
    /\ \E a \in RunArgs : args' = a
    /\ pc' = "select"
    /\ UNCHANGED <<checkers, exitCode, checker_names, runner, runVars>>

\* main: parser.parse_args() without an action: the mutually exclusive group
\* is required, argparse reports the error and exits with status 2
ParseArgsError ==
    /\ pc = "import"
    /\ UNCHANGED <<project_path, libVars>>
    /\ \E a \in NoActionArgs : args' = a
    /\ pc' = "exit_usage"
    /\ exitCode' = 2
    /\ UNCHANGED <<checkers, checker_names, runner, runVars>>

\* main: --all, the keys of registry.get_available_checkers(); an exception
\* of a probe is not handled and ends the process with a traceback, status 1
SelectAll ==
    /\ pc = "select"
    /\ UNCHANGED <<project_path, libVars>>
    /\ args.action = "all"
    /\ \E f \in ProbeAssignments(checkers) :
         LET av == get_available_checkers(checkers, f) IN
         IF av.raised
         THEN /\ pc' = "exit_crash_main"
              /\ exitCode' = 1
              /\ UNCHANGED checker_names
         ELSE /\ pc' = "validate"
              /\ checker_names' = av.keys
              /\ UNCHANGED exitCode
    /\ UNCHANGED <<checkers, args, runner, runVars>>

\* main: --check NAME...
SelectNamed ==
    /\ pc = "select"
    /\ UNCHANGED <<project_path, libVars>>
    /\ args.action = "check"
    /\ checker_names' = args.check
    /\ pc' = "validate"
    /\ UNCHANGED <<checkers, args, exitCode, runner, runVars>>

\* the validation without the is_dir() test
PathIsValid_ExistsOnly(path) == path # "missing"

\* main: args.project_path.exists() and args.project_path.is_dir()
PathIsValid(path) == path = "dir"

\* main: the project path must exist and be a directory
ValidatePath(path) ==
    /\ pc = "validate"
    /\ UNCHANGED libVars
    /\ project_path' = path
    /\ IF PathIsValid(path)
       THEN pc' = "construct" /\ UNCHANGED exitCode
       ELSE pc' = "exit_path" /\ exitCode' = 1
    /\ UNCHANGED <<checkers, args, checker_names, runner, runVars>>

\* main: CheckRunner(project_path, verbose, quiet, json_output, timeout)
CreateRunner ==
    /\ pc = "construct"
    /\ UNCHANGED <<project_path, libVars>>
    /\ runner' = [verbose |-> args.verbose, quiet |-> args.quiet,
                  json_output |-> args.json, timeout |-> args.timeout]
    /\ pc' = "run_checks"
    /\ UNCHANGED <<checkers, args, exitCode, checker_names, runVars>>

\* a filter loop that hands over to the run loop after its first name
AfterFilterStep_StopAfterFirst(idx, names) == "run"

\* run_checks: the run loop starts when the filter loop has visited every
\* requested name
AfterFilterStep(idx, names) == IF idx = Len(names) THEN "run" ELSE "filter"

\* a run loop that takes the names from the end
NextToRun_FromTheEnd(to_run, idx) == to_run[Len(to_run) + 1 - idx]

\* run_checks: for name in checkers_to_run, the name of the iteration
NextToRun(to_run, idx) == to_run[idx]

\* a run loop that checks a checker again when its first result is an error
Advance_RetryErrorOnce(idx, result, calls) ==
    IF result.status = ERROR /\ calls < 2 THEN idx ELSE idx + 1

\* run_checks: the for loop goes on to the next name whatever the result
\* and however often the checker has been called
Advance(idx, result, calls) == idx + 1

\* run_checks: results = [], the two registry snapshots; an exception of a
\* probe leaves run_checks and main and ends the process, status 1
RunChecksBegin ==
    /\ pc = "run_checks"
    /\ UNCHANGED <<project_path, libVars>>
    /\ \E f \in ProbeAssignments(checkers) :
         LET av == get_available_checkers(checkers, f) IN
         /\ probeCalls' = ProbeCalls(checkers, f)
         /\ IF av.raised
            THEN /\ pc' = "exit_crash_run"
                 /\ exitCode' = 1
                 /\ UNCHANGED <<all_checkers, available_checkers>>
            ELSE /\ pc' = IF checker_names = <<>> THEN "run" ELSE "filter"
                 /\ all_checkers' = get_all_checkers(checkers)
                 /\ available_checkers' = Range(av.keys)
                 /\ UNCHANGED exitCode
    /\ results' = <<>>
    /\ checkers_to_run' = <<>>
    /\ filterIdx' = 1
    /\ runIdx' = 1
    /\ UNCHANGED <<checkers, args, checker_names, runner, behaviour,
                   printed, checkCalls>>

\* run_checks: one iteration of the filter loop
FilterStep ==
    /\ pc = "filter"
    /\ UNCHANGED <<project_path, libVars>>
    /\ LET name == checker_names[filterIdx] IN
       LET outcome == FilterOutcome(name, all_checkers, available_checkers)
       IN
       CASE outcome = "not_found" ->
              /\ printed' = IF ~runner.quiet
                            THEN Append(printed, NotFoundWarning(name))
                            ELSE printed
              /\ UNCHANGED <<results, checkers_to_run>>
         [] outcome = "not_available" ->
              /\ printed' = IF ~runner.quiet
                            THEN Append(printed, NotAvailableWarning(name))
                            ELSE printed
              /\ results' = Append(results, SkippedResult(name))
              /\ UNCHANGED checkers_to_run
         [] OTHER ->
              /\ checkers_to_run' = Append(checkers_to_run, name)
              /\ UNCHANGED <<results, printed>>
    /\ filterIdx' = filterIdx + 1
    /\ pc' = AfterFilterStep(filterIdx, checker_names)
    /\ UNCHANGED <<checkers, args, exitCode, checker_names, runner,
                   all_checkers, available_checkers, runIdx, behaviour,
                   checkCalls, probeCalls>>

\* run_checks / _run_single_check: the header line and the call of check()
StartCheck ==
    /\ pc = "run"
    /\ UNCHANGED <<project_path, libVars>>
    /\ runIdx <= Len(checkers_to_run)
    /\ LET name == NextToRun(checkers_to_run, runIdx) IN
       /\ printed' = IF ~runner.quiet /\ ~runner.json_output
                     THEN Append(printed, RunningHeader(name))
                     ELSE printed
       /\ checkCalls' = [checkCalls EXCEPT ![name] = @ + 1]
    /\ pc' = "checking"
    /\ UNCHANGED <<checkers, args, exitCode, checker_names, runner,
                   all_checkers, available_checkers, filterIdx,
                   checkers_to_run, runIdx, behaviour, results, probeCalls>>

\* _run_single_check / run_checks: check() returns or raises, the result is
\* appended and, in text mode, printed; a KeyboardInterrupt leaves run_checks
\* and main and ends the process, status 130
FinishCheck ==
    /\ pc = "checking"
    /\ UNCHANGED <<project_path, libVars>>
    /\ LET checker == CheckerNamed(all_checkers,
                                  NextToRun(checkers_to_run, runIdx)) IN
       \E b \in BehavioursOf(checker.kind) :
         LET r == run_single_check(checker, b) IN
         /\ behaviour' = b
         /\ IF r.raised # "none"
            THEN /\ pc' = "exit_interrupt"
                 /\ exitCode' = 130
                 /\ UNCHANGED <<results, printed, runIdx>>
            ELSE /\ results' = Append(results, r.result)
                 /\ printed' = IF ~runner.quiet /\ ~runner.json_output
                               THEN printed \o
                                    print_check_result(r.result, runner.verbose)
                               ELSE printed
                 /\ runIdx' = Advance(runIdx, r.result,
                                       checkCalls[checker.name])
                 /\ pc' = "run"
                 /\ UNCHANGED exitCode
    /\ UNCHANGED <<checkers, args, checker_names, runner, all_checkers,
                   available_checkers, filterIdx, checkers_to_run, checkCalls,
                   probeCalls>>

\* run_checks returns; main counts, prints the summary and exits
Summarize ==
    /\ pc = "run"
    /\ UNCHANGED <<project_path, libVars>>
    /\ runIdx > Len(checkers_to_run)
    /\ LET failed_count == CountStatus(results, FAILED)
           error_count == CountStatus(results, ERROR) IN
       /\ printed' = IF ~args.json
                     THEN printed \o
                          print_summary(results, failed_count, error_count)
                     ELSE printed
       /\ exitCode' = ExitCodeFor(failed_count, error_count)
    /\ pc' = "exit_done"
    /\ UNCHANGED <<checkers, args, checker_names, runner, all_checkers,
                   available_checkers, filterIdx, checkers_to_run, runIdx,
                   behaviour, results, checkCalls, probeCalls>>

Next ==
    \/ \E n \in RegNames, k \in Kinds : Register(n, k)
    \/ ParseArgs
    \/ ParseArgsError
    \/ SelectAll
    \/ SelectNamed
    \/ \E path \in PathStates : ValidatePath(path)
    \/ CreateRunner
    \/ RunChecksBegin
    \/ FilterStep
    \/ StartCheck
    \/ FinishCheck
    \/ Summarize

Spec == Init /\ [][Next]_vars

TypeOK ==
    /\ pc \in {"import", "select", "validate", "construct", "run_checks",
               "filter", "run", "checking", "exit_usage", "exit_path",
               "exit_crash_main", "exit_crash_run", "exit_interrupt",
               "exit_done"}
    /\ \A i \in 1..Len(results) : results[i].status \in CheckStatus
    /\ \A i, j \in 1..Len(checkers) :
         checkers[i].name = checkers[j].name => i = j


\* ------------------------------------------------------------------ claims
RECURSIVE Count(_, _)
Count(names, n) ==
    IF names = <<>> THEN 0
    ELSE (IF Head(names) = n THEN 1 ELSE 0) + Count(Tail(names), n)

ResultNames == [i \in 1..Len(results) |-> results[i].name]
SnapshotNames == Range(RegistryNames(all_checkers))

\* the filter loop of run_checks is over
FilterDone == pc \in {"run", "checking", "exit_done", "exit_interrupt"}

\* the checker whose check() finished last, while the run goes on
RunGoesOn == pc \in {"run", "checking", "exit_done"}
LastChecked == checkers_to_run[runIdx - 1]
LastResult == results[Len(results)]

\* C1: when run_checks has returned, the names of the results are the
\* registered names of the request, in request order.
C1_ResultsInRequestOrder ==
    pc = "exit_done" =>
        ResultNames = SelectNames(checker_names, SnapshotNames)

\* C2: a requested name that is registered and whose probe returned false has
\* check() never invoked and, once the filter loop is over, one result per
\* request entry, each Skipped with duration 0, empty output and a non-empty
\* error.
C2_UnavailableIsSkipped ==
    \A n \in SnapshotNames \ available_checkers :
        /\ checkCalls[n] = 0
        /\ FilterDone =>
             /\ Count(ResultNames, n) = Count(checker_names, n)
             /\ \A i \in 1..Len(results) :
                  results[i].name = n =>
                    /\ results[i].status = SKIPPED
                    /\ results[i].duration = 0
                    /\ results[i].output = <<>>
                    /\ results[i].error # <<>>

C2_Witness ==
    /\ pc = "exit_done"
    /\ \E n \in SnapshotNames \ available_checkers :
         Count(checker_names, n) = 1
    /\ \E m \in available_checkers : checkCalls[m] > 0

\* C3: a requested name that is not registered gets no result and, unless
\* quiet, one "not found" warning per request entry; when run_checks has
\* returned, there are as many results as registered request entries.
C3_UnknownNamesDropped ==
    /\ FilterDone =>
         \A n \in Range(checker_names) \ SnapshotNames :
            /\ Count(ResultNames, n) = 0
            /\ Count(printed, NotFoundWarning(n)) =
                 IF runner.quiet THEN 0 ELSE Count(checker_names, n)
    /\ pc = "exit_done" =>
         Len(results) = Len(SelectNames(checker_names, SnapshotNames))

C3_Witness ==
    /\ pc = "exit_done"
    /\ ~runner.quiet
    /\ Range(checker_names) \ SnapshotNames # {}
    /\ \E i \in 1..Len(results) : results[i].status = PASSED


\* the check() that finished last raised: an Exception, or KeyboardInterrupt
RaisedException == behaviour.kind = "raise"
RaisedAny == behaviour.kind \in {"raise", "interrupt"}

\* the result the runner makes of an exception of the last check()
CaughtAsError ==
    /\ RunGoesOn
    /\ Len(results) > 0
    /\ LastResult.status = ERROR
    /\ LastResult.name = LastChecked

\* every check() that was to run has run once run_checks has returned
AllRanOnReturn ==
    pc = "exit_done" =>
        \A n \in RegNames :
            /\ checkCalls[n] = Count(checkers_to_run, n)
            /\ Len(SelectSeq(results,
                     LAMBDA r : r.name = n /\ r.status # SKIPPED))
                 = Count(checkers_to_run, n)

\* C4 as stated: whatever check() raises, the runner appends an Error result
\* with the checker's name and nothing leaves run_checks.
C4_AnyExceptionCaught == RaisedAny => CaughtAsError

\* C4, amended: an exception of check() that derives from Exception becomes an
\* Error result with the checker's name, run_checks goes on, and when it
\* returns every checker that was to run has run.
C4_ExceptionCaught == RaisedException => (CaughtAsError /\ AllRanOnReturn)

C4_Witness ==
    /\ pc = "exit_done"
    /\ Len(checkers_to_run) = 2
    /\ results[Len(results) - 1].status = ERROR
    /\ results[Len(results) - 1].error = <<"Unexpected", "error:", "boom">>
    /\ LastResult.status = PASSED

\* C5: run_checks never ends with an exception.
C5_NoUnhandledException == pc \notin {"exit_crash_run", "exit_interrupt"}

\* the check() that finished last ran into the timeout of subprocess.run
TimedOut == behaviour.kind = "exit" /\ behaviour.time > CheckTimeout
MentionsTimeout(text) ==
    \E i \in 1..Len(text) : text[i] \in {"timeout", "timed"}

\* C6: a check that ran into the timeout has an Error result whose error
\* mentions the timeout, run_checks goes on, and when it returns every checker
\* that was to run has run.
C6_TimeoutIsErrorAndRunGoesOn ==
    TimedOut => /\ CaughtAsError
                /\ MentionsTimeout(LastResult.error)
                /\ AllRanOnReturn

C6_Witness ==
    /\ pc = "exit_done"
    /\ Len(results) = 2
    /\ results[1].status = ERROR /\ MentionsTimeout(results[1].error)
    /\ results[2].status \in {PASSED, FAILED}
    /\ results[2].name # results[1].name

\* C7: every check execution is bounded by the timeout the runner was given:
\* no result has a duration above it.
C7_TimeoutIsCallerConfigured ==
    \A i \in 1..Len(results) : results[i].duration <= runner.timeout

\* C8: when main exits after run_checks has returned, the exit code is
\* non-zero exactly if a result is Failed or Error.
C8_ExitCodeReflectsResults ==
    pc = "exit_done" =>
        (exitCode # 0 <=>
            \E i \in 1..Len(results) : results[i].status \in {FAILED, ERROR})

C8_Witness ==
    /\ pc = "exit_done"
    /\ exitCode = 0
    /\ \E i \in 1..Len(results) : results[i].status = SKIPPED
    /\ \E i \in 1..Len(results) : results[i].status = PASSED

\* C9: an invocation that ends with no checkers selected exits with code 1.
C9_NoCheckersExitOne ==
    /\ pc = "exit_usage" => exitCode = 1
    /\ (pc = "exit_done" /\ checker_names = <<>>) => exitCode = 1

\* C10: a command check whose process exits in time gives Passed for exit
\* code 0, with the captured stdout and an empty error, and Failed for any
\* other exit code, with the captured stdout and stderr; the name is the
\* checker's.
C10_ExitCodeMapping ==
    (RunGoesOn /\ behaviour.kind = "exit" /\ ~TimedOut) =>
        /\ LastResult.name = LastChecked
        /\ LastResult.output = behaviour.stdout
        /\ behaviour.returncode = 0 =>
             LastResult.status = PASSED /\ LastResult.error = <<>>
        /\ behaviour.returncode # 0 =>
             LastResult.status = FAILED /\ LastResult.error = behaviour.stderr

C10_Witness ==
    /\ pc = "exit_done"
    /\ \E i \in 1..Len(results) :
         /\ results[i] = CheckResult("fmt", PASSED, <<"ok">>, <<>>, 2)
    /\ behaviour.returncode = 1 /\ behaviour.stderr # <<>>
    /\ LastResult.status = FAILED


\* ------------------------------------------------- get_json_results alone
\* number of results in a list given to get_json_results
MaxResults == 2

\* time.time() at the call
Times == {1, 2}

\* results as run_checks and CommandChecker.check make them
SampleResults ==
    UNION { { CheckResult(n, PASSED, <<"ok">>, <<>>, 2),
              CheckResult(n, FAILED, <<"findings">>, <<"bad">>, 2),
              CheckResult(n, ERROR, <<>>, TimeoutMessage, CheckTimeout),
              SkippedResult(n) } : n \in RegNames }

InitJson ==
    /\ checkers = <<>>
    /\ pc = "get_json_results"
    /\ results \in SeqsUpTo(SampleResults, MaxResults)
    /\ MainIdle
    /\ RegistryIdle
    /\ report = NoReport
    /\ selected_categories = {}
    /\ category_checkers = <<>>

\* a caller's runner.get_json_results(results)
GetJsonResults(now) ==
    /\ pc = "get_json_results"
    /\ report' = get_json_results(results, "dir", now)
    /\ pc' = "json_done"
    /\ UNCHANGED <<checkers, args, exitCode, checker_names, runner, runVars,
                   project_path, selected_categories, category_checkers,
                   registered, snapshot, description, available_result,
                   probed, genVars>>

NextJson == \E now \in Times : GetJsonResults(now)

SpecJson == InitJson /\ [][NextJson]_vars

\* C11: the report has summary.total equal to the number of results, one
\* results entry per result in the same order, and its four counts add up to
\* summary.total.
C11_ReportMatchesResults ==
    pc = "json_done" =>
        /\ report.summary.total = Len(results)
        /\ Len(report.results) = Len(results)
        /\ \A i \in 1..Len(results) :
             /\ report.results[i].name = results[i].name
             /\ report.results[i].status = results[i].status
        /\ report.summary.passed + report.summary.failed
             + report.summary.error + report.summary.skipped
           = report.summary.total

C11_Witness ==
    /\ pc = "json_done"
    /\ Len(results) = 2
    /\ results[1].status = ERROR
    /\ results[2].status = SKIPPED
    /\ results[1].name # results[2].name

\* a printed JSON document
JsonLine(doc) == <<"json", ToString(doc)>>

\* C12: with --json, what a run has printed when it ends is the JSON report
\* of its results and nothing else.
C12_JsonReportInsteadOfText ==
    (pc = "exit_done" /\ args.json) =>
        \E now \in Times :
            printed = << JsonLine(get_json_results(results, "dir", now)) >>

\* C13: with --quiet, a run prints nothing: no header, no result line, no
\* warning and no summary.
C13_QuietPrintsNothing == args.quiet => printed = <<>>

\* C16: when the project path is missing or not a directory, main exits
\* there with a non-zero code and no check() has been invoked.
C16_InvalidPathExitsBeforeChecks ==
    project_path \in {"missing", "file"} =>
        /\ pc = "exit_path"
        /\ exitCode # 0
        /\ \A n \in RegNames : checkCalls[n] = 0

C16_Witness ==
    /\ project_path = "file"
    /\ pc = "exit_path"
    /\ checker_names # <<>>

\* the request holds a name that is not registered
UnknownRequested ==
    /\ pc \in {"filter", "run", "checking", "exit_done", "exit_interrupt"}
    /\ Range(checker_names) \ SnapshotNames # {}

\* C17 as stated: with an unknown name in the request no check() is invoked
\* and the process exits with a non-zero code.
C17_UnknownNameIsFatal ==
    UnknownRequested =>
        /\ \A n \in RegNames : checkCalls[n] = 0
        /\ pc = "exit_done" => exitCode # 0

\* C17, amended: an unknown name in the request is warned about (unless
\* quiet) before any check() is invoked and gets no result; the checkers that
\* are registered and available are still checked, and the exit code is that
\* of their results.
C17_UnknownNameIsWarnedOnly ==
    UnknownRequested =>
        /\ \A i \in 1..Len(results) : results[i].name \in SnapshotNames
        /\ (~runner.quiet /\ \E n \in RegNames : checkCalls[n] > 0) =>
             \A n \in Range(checker_names) \ SnapshotNames :
                \E i \in 1..Len(printed) :
                    /\ printed[i] = NotFoundWarning(n)
                    /\ \A j \in 1..i : printed[j][1] = "Warning:"
        /\ pc = "exit_done" =>
             /\ \A n \in available_checkers :
                  checkCalls[n] = Count(checker_names, n)
             /\ exitCode = 0 <=>
                  \A i \in 1..Len(results) :
                      results[i].status \in {PASSED, SKIPPED}

C17_Witness ==
    /\ pc = "exit_done"
    /\ exitCode = 0
    /\ ~runner.quiet
    /\ Len(checker_names) = 2
    /\ checker_names[1] \notin SnapshotNames
    /\ Len(results) = 1
    /\ results[1].status = PASSED

\* ------------------------------------------------------------------ C14
\* the checker names of the categories given on the command line
NamesOfCategories(cats) ==
    UNION { Range(get_checkers_by_category[c]) : c \in cats \cap Categories }

\* C14: a command line with one or more category flags and no action is
\* accepted (no usage error), and the names main hands to the runner are
\* the union of the selected categories' checker names
C14_CategoriesAloneAccepted ==
    args.cats # {} =>
        /\ pc # "exit_usage"
        /\ exitCode # 2
        /\ pc \in {"construct", "run_checks", "filter", "run", "checking",
                   "exit_done", "exit_interrupt", "exit_crash_run"}
             => Range(checker_names) = NamesOfCategories(args.cats)

\* ------------------------------------------------------------------ C15
\* the category sets tried have at most this many names
MaxCategories == 2

\* the names a caller passes: the keys of the table and one that is none
CategoryInputs == Categories \cup {"nonexistent"}

\* a caller is about to call get_checkers_for_categories(selected_categories)
InitCategories ==
    /\ checkers = <<>>
    /\ pc = "get_checkers_for_categories"
    /\ results = <<>>
    /\ MainIdle
    /\ RegistryIdle
    /\ report = NoReport
    /\ selected_categories \in
         { S \in SUBSET CategoryInputs : Cardinality(S) <= MaxCategories }
    /\ category_checkers = <<>>

\* get_checkers_for_categories(selected_categories) returns
GetCheckersForCategories ==
    /\ pc = "get_checkers_for_categories"
    /\ category_checkers' \in get_checkers_for_categories(selected_categories)
    /\ pc' = "categories_done"
    /\ UNCHANGED <<checkers, args, exitCode, checker_names, runner, runVars,
                   project_path, report, selected_categories, registered,
                   snapshot, description, available_result, probed, genVars>>

NextCategories == GetCheckersForCategories

SpecCategories == InitCategories /\ [][NextCategories]_vars

\* C15: the list returned for a set of category names has no duplicates and
\* holds exactly the names the table lists for the known categories of the
\* set; the empty set and a set of unknown names give the empty list, and
\* {format} gives black and isort
C15_CategoriesResolveToUnion ==
    pc = "categories_done" =>
        /\ \A i, j \in 1..Len(category_checkers) :
             category_checkers[i] = category_checkers[j] => i = j
        /\ Range(category_checkers) = NamesOfCategories(selected_categories)
        /\ selected_categories \cap Categories = {}
             => category_checkers = <<>>
        /\ selected_categories = {"format"}
             => Range(category_checkers) = {"black", "isort"}

C15_Witness ==
    /\ pc = "categories_done"
    /\ selected_categories = {"lint", "format"}
    /\ category_checkers = <<"pylint", "black", "flake8", "isort">>

\* ------------------------------------------------------- the registry alone
\* at most this many checker objects are constructed
MaxCheckers == 2

\* descriptions a checker object can carry: the one it was constructed with
\* and one assigned later
Descriptions == {"original", "changed"}

\* a CheckerRegistry() has been constructed
InitRegistry ==
    /\ checkers = <<>>
    /\ pc = "registry"
    /\ results = <<>>
    /\ MainIdle
    /\ RegistryIdle
    /\ report = NoReport
    /\ selected_categories = {}
    /\ category_checkers = <<>>

idleVars == <<pc, args, exitCode, checker_names, runner, runVars,
              project_path, report, selected_categories, category_checkers,
              genVars>>

\* a new checker object, BaseChecker.__init__(name, description)
NewChecker(n, k) == [name |-> n, kind |-> k, id |-> Len(description) + 1]

\* registry.register(Checker(n))
RegistryRegister(n, k) ==
    /\ pc = "registry"
    /\ Len(description) < MaxCheckers
    /\ checkers' = register(checkers, NewChecker(n, k))
    /\ registered' = Append(registered, NewChecker(n, k))
    /\ description' = Append(description, "original")
    /\ UNCHANGED <<idleVars, snapshot, available_result, probed>>

\* snapshot = registry.get_all_checkers()
GetAllCheckers ==
    /\ pc = "registry"
    /\ snapshot' = [taken |-> TRUE, items |-> get_all_checkers(checkers)]
    /\ UNCHANGED <<idleVars, checkers, registered, description,
                   available_result, probed>>

\* snapshot[n] = Checker(n): adds the key, or replaces its value
SnapshotPut(n, k) ==
    /\ pc = "registry"
    /\ snapshot.taken
    /\ Len(description) < MaxCheckers
    /\ snapshot' = [snapshot EXCEPT
                      !.items = register(@, NewChecker(n, k))]
    /\ description' = Append(description, "original")
    /\ UNCHANGED <<idleVars, checkers, registered, available_result, probed>>

\* del snapshot[key] for the i-th key
SnapshotRemove(i) ==
    /\ pc = "registry"
    /\ snapshot.taken
    /\ snapshot' = [snapshot EXCEPT
                      !.items = SubSeq(@, 1, i - 1)
                                \o SubSeq(@, i + 1, Len(@))]
    /\ UNCHANGED <<idleVars, checkers, registered, description,
                   available_result, probed>>

\* snapshot[key].description = d for the i-th key: an assignment to the
\* object the dict refers to
SnapshotChange(i, d) ==
    /\ pc = "registry"
    /\ snapshot.taken
    /\ description[snapshot.items[i].id] # d
    /\ description' = [description EXCEPT ![snapshot.items[i].id] = d]
    /\ UNCHANGED <<idleVars, checkers, registered, snapshot,
                   available_result, probed>>

\* registry.get_available_checkers(); probed keeps the registry of the call
\* and what each is_available() did
GetAvailableCheckers(f) ==
    /\ pc = "registry"
    /\ LET av == get_available_checkers(checkers, f) IN
         /\ available_result' =
              IF av.raised THEN NoAvailable
              ELSE [returned |-> TRUE, items |-> av.items]
         /\ probed' = [reg |-> checkers,
                       f |-> [i \in 1..Len(checkers) |->
                                is_available(checkers[i], f[i])]]
    /\ UNCHANGED <<idleVars, checkers, registered, snapshot, description>>

NextRegistry ==
    \/ \E n \in RegNames, k \in Kinds : RegistryRegister(n, k)
    \/ GetAllCheckers
    \/ \E n \in RegNames, k \in Kinds : SnapshotPut(n, k)
    \/ \E i \in 1..Len(snapshot.items) : SnapshotRemove(i)
    \/ \E i \in 1..Len(snapshot.items), d \in Descriptions :
         SnapshotChange(i, d)
    \/ \E f \in ProbeAssignments(checkers) : GetAvailableCheckers(f)

SpecRegistry == InitRegistry /\ [][NextRegistry]_vars

\* ------------------------------------------------------------------ C18
\* the checker the latest register call with this name was given
LastRegistered(n) ==
    LET calls == { i \in 1..Len(registered) : registered[i].name = n }
    IN  IF calls = {} THEN None
        ELSE registered[CHOOSE i \in calls : \A j \in calls : j <= i]

\* names asked for: the registrable ones and one that is never registered
LookupNames == RegNames \cup {"nonexistent"}

RegistryView ==
    [i \in 1..Len(checkers) |->
        [key |-> checkers[i].name, checker |-> checkers[i],
         description |-> description[checkers[i].id]]]

\* an operation of a caller on the value get_all_checkers returned
CallerStep ==
    \/ \E n \in RegNames, k \in Kinds : SnapshotPut(n, k)
    \/ \E i \in 1..Len(snapshot.items) : SnapshotRemove(i)
    \/ \E i \in 1..Len(snapshot.items), d \in Descriptions :
         SnapshotChange(i, d)

\* C19: no operation of a caller on the value get_all_checkers returned
\* (adding, removing or replacing an entry, changing a checker reached
\* through it) changes what the registry hands out afterwards
C19_SnapshotIsDefensive ==
    [][CallerStep => RegistryView' = RegistryView]_vars

\* ------------------------------------------------------------------ C20
\* C20: the keys of what get_available_checkers() returns are keys of the
\* registry, they are exactly the registered names whose is_available()
\* returned true, and each is mapped to the registry's checker object
C20_AvailableIsFilteredRegistry ==
    available_result.returned =>
        LET reg == probed.reg
            items == available_result.items
        IN  /\ Range(RegistryNames(items)) \subseteq Range(RegistryNames(reg))
            /\ Range(RegistryNames(items)) =
                 { reg[i].name : i \in { j \in 1..Len(reg) :
                                          probed.f[j] = "true" } }
            /\ \A j \in 1..Len(items) :
                 items[j] = get_checker(reg, items[j].name)
            /\ \A j, k \in 1..Len(items) :
                 items[j].name = items[k].name => j = k

C20_Witness ==
    /\ available_result.returned
    /\ Len(probed.reg) = 2
    /\ probed.f = <<"false", "true">>
    /\ available_result.items = <<probed.reg[2]>>

\* ------------------------------------------------------------------ C23
\* C23: CommandChecker.is_available never raises: it returns true only when
\* the version probe starts and exits with code 0 and false for every other
\* outcome of the probe, in every call get_available_checkers makes
C23_IsAvailableNeverRaises ==
    /\ \A probe \in CommandProbes :
         CommandChecker_is_available(probe) = "true" <=> probe = "exit0"
    /\ \A i \in 1..Len(probed.reg) :
         probed.reg[i].kind = "command" => probed.f[i] \in {"true", "false"}

\* ------------------------------------------------------- C24, C25, C26, C27
\* the requested names that are registered and available, in request order:
\* the names run_checks has to check
ToCheck == SelectNames(checker_names, SnapshotNames \cap available_checkers)

\* the requested names that are registered and not available, in request
\* order: the names run_checks has to skip
ToSkip == SelectNames(checker_names, SnapshotNames \ available_checkers)

\* the requested names run_checks has to warn about, in request order
ToWarn == SelectNames(checker_names,
                      Range(checker_names) \ (SnapshotNames
                                              \cap available_checkers))

\* check() calls made so far by the run
Started == checkCalls["fmt"] + checkCalls["lint"]

\* the results that check() calls produced: those after the filter's
CheckedResults ==
    IF Len(results) >= Len(ToSkip)
    THEN SubSeq(results, Len(ToSkip) + 1, Len(results))
    ELSE <<>>

\* check() calls that have returned or raised
Finished ==
    Len(CheckedResults) + (IF pc = "exit_interrupt" THEN 1 ELSE 0)

\* C24: checks are executed one after another in request order: the calls
\* started so far are those of the first names to check, all but the last
\* of them have finished, and at most one check is in progress, which is
\* the case exactly while check() is being executed
C24_ChecksAreSequential ==
    /\ ~FilterDone => Started = 0
    /\ FilterDone =>
         /\ Started - Finished \in {0, 1}
         /\ Started - Finished = 1 <=> pc = "checking"
         /\ Started <= Len(ToCheck)
         /\ \A n \in RegNames :
              checkCalls[n] = Count(SubSeq(ToCheck, 1, Started), n)
         /\ Len(CheckedResults) <= Len(ToCheck)
         /\ \A i \in 1..Len(CheckedResults) :
              CheckedResults[i].name = ToCheck[i]

C24_Witness ==
    /\ pc = "checking"
    /\ checker_names = <<"lint", "fmt">>
    /\ Len(results) = 1
    /\ results[1].name = "lint"
    /\ results[1].status # SKIPPED
    /\ checkCalls = [fmt |-> 1, lint |-> 1]

\* C25 as stated: when run_checks has returned, every registered and
\* available checker named in the request has had check() called exactly
\* once, for any request list
C25_EachCheckedExactlyOnce ==
    pc = "exit_done" =>
        \A n \in Range(ToCheck) : checkCalls[n] = 1

\* C25: there is no retry: a registered and available checker has check()
\* called once for each occurrence of its name in the request, whatever
\* the results are, and no other checker has check() called
C25_OneCheckPerRequestedOccurrence ==
    /\ \A n \in RegNames : checkCalls[n] <= Count(ToCheck, n)
    /\ pc = "exit_done" =>
         \A n \in RegNames :
            /\ checkCalls[n] = Count(ToCheck, n)
            /\ Count([i \in 1..Len(CheckedResults) |->
                        CheckedResults[i].name], n) = Count(ToCheck, n)

C25_Witness ==
    /\ pc = "exit_done"
    /\ checker_names = <<"fmt", "fmt">>
    /\ checkCalls["fmt"] = 2
    /\ Len(results) = 2
    /\ results[1].status = ERROR
    /\ results[2].status = FAILED

\* the lines of the output that report a result
ProgressLines ==
    SelectSeq(printed,
              LAMBDA l : l[1] \in {"passed", "failed", "error", "skipped"})

\* the first line _print_check_result prints for a result
ProgressLineOf(r) == Head(print_check_result(r, runner.verbose))

TextMode == ~runner.quiet /\ ~runner.json_output

\* printed ends with these lines
EndsWith(lines) ==
    /\ Len(printed) >= Len(lines)
    /\ SubSeq(printed, Len(printed) - Len(lines) + 1, Len(printed)) = lines

\* C26 as stated: in text mode every result has its progress line printed
\* by the time the next check starts, none omitted
C26_EveryResultHasProgressLine ==
    (FilterDone /\ TextMode) =>
        ProgressLines = [i \in 1..Len(results) |-> ProgressLineOf(results[i])]

\* C26: in text mode the progress line of the result of every check() is
\* printed right after that check and before the next check starts, in
\* order, none deferred or omitted
C26_ProgressLineAfterEachCheck ==
    (FilterDone /\ TextMode) =>
        /\ ProgressLines = [i \in 1..Len(CheckedResults) |->
                              ProgressLineOf(CheckedResults[i])]
        /\ (pc = "run" /\ CheckedResults # <<>>) =>
              EndsWith(print_check_result(LastResult, runner.verbose))
        /\ pc = "checking" =>
              EndsWith(<<RunningHeader(ToCheck[Started])>>)

C26_Witness ==
    /\ pc = "checking"
    /\ TextMode
    /\ checker_names = <<"fmt", "lint">>
    /\ Len(results) = 1
    /\ results[1].status = PASSED
    /\ printed = <<RunningHeader("fmt"), <<"passed", "fmt">>,
                   RunningHeader("lint")>>

\* the warnings of the output
WarningLines == SelectSeq(printed, LAMBDA l : l[1] = "Warning:")

\* the warning run_checks prints for a requested name it does not check
WarningFor(name) ==
    IF name \in SnapshotNames THEN NotAvailableWarning(name)
    ELSE NotFoundWarning(name)

\* run_checks has taken its registry snapshots
Snapshotted ==
    pc \in {"filter", "run", "checking", "exit_done", "exit_interrupt"}

\* C27: run_checks works in two phases: it probes is_available() of every
\* registered checker exactly once, and every warning and every Skipped
\* result is there before the first check() is called; no probe follows
C27_ProbeAndFilterBeforeChecks ==
    /\ Snapshotted =>
         \A n \in RegNames :
            probeCalls[n] = IF n \in Range(RegistryNames(checkers))
                            THEN 1 ELSE 0
    /\ ~FilterDone => Started = 0
    /\ FilterDone =>
         /\ Len(results) >= Len(ToSkip)
         /\ SubSeq(results, 1, Len(ToSkip)) =
              [i \in 1..Len(ToSkip) |-> SkippedResult(ToSkip[i])]
         /\ WarningLines =
              IF runner.quiet THEN <<>>
              ELSE [i \in 1..Len(ToWarn) |-> WarningFor(ToWarn[i])]

C27_Witness ==
    /\ pc = "checking"
    /\ Started = 1
    /\ checker_names = <<"fmt", "lint">>
    /\ checkCalls["fmt"] = 1
    /\ results = <<SkippedResult("lint")>>
    /\ printed = <<NotAvailableWarning("lint"), RunningHeader("fmt")>>
    /\ probeCalls = [fmt |-> 1, lint |-> 1]

\* ------------------------------------------------------- built-in checkers
\* one entry of a checker's config_files: the file name and the content,
\* the content named by its first line
Config(filename, content) == [name |-> filename, content |-> content]

\* CommandChecker(name, command, args, description, config_files); every
\* built-in has its name as its command
CommandChecker(name, arguments, text, configs) ==
    [name |-> name, kind |-> "command", command |-> name, args |-> arguments,
     description |-> text, config_files |-> configs]

\* the checkers register_builtin_checkers constructs, in its order
Builtins ==
    << CommandChecker("black", <<"--check", ".">>,
                      "Code formatting with Black",
                      <<Config("pyproject.toml", "[tool.black]")>>),
       CommandChecker("isort", <<"--check-only", ".">>,
                      "Import sorting with isort",
                      <<Config("pyproject.toml", "[tool.isort]")>>),
       CommandChecker("flake8", <<".">>, "Linting with Flake8",
                      <<Config(".flake8", "[flake8]")>>),
       CommandChecker("pylint", <<".">>, "Linting with Pylint",
                      <<Config("pyproject.toml",
                               "[tool.pylint.messages_control]")>>),
       CommandChecker("mypy", <<".">>, "Type checking with MyPy",
                      <<Config("pyproject.toml", "[tool.mypy]")>>),
       CommandChecker("bandit", <<"-r", ".">>,
                      "Security linting with Bandit",
                      <<Config(".bandit", "exclude_dirs:")>>),
       CommandChecker("safety", <<"check">>,
                      "Security vulnerability checking with Safety", <<>>),
       CommandChecker("pydocstyle", <<".">>,
                      "Documentation style checking with Pydocstyle",
                      <<Config("pyproject.toml", "[tool.pydocstyle]")>>),
       CommandChecker("vulture", <<".", "--min-confidence=80">>,
                      "Dead code detection with Vulture", <<>>),
       CommandChecker("radon", <<"cc", ".", "--min=A">>,
                      "Cyclomatic complexity with Radon", <<>>) >>

BuiltinNames == { Builtins[i].name : i \in 1..Len(Builtins) }

\* the checker object with the identity it gets when it is constructed
WithId(c, id) ==
    [name |-> c.name, kind |-> c.kind, command |-> c.command,
     args |-> c.args, description |-> c.description,
     config_files |-> c.config_files, id |-> id]

\* what get_all_checkers shows of a checker, its identity left out
ContentOf(c) ==
    [name |-> c.name, kind |-> c.kind, command |-> c.command,
     args |-> c.args, description |-> c.description,
     config_files |-> c.config_files]

\* registry.register(...) for the first n built-ins, objects numbered from
\* next_id
RECURSIVE RegisterBuiltins(_, _, _)
RegisterBuiltins(reg, n, next_id) ==
    IF n = 0 THEN reg
    ELSE register(RegisterBuiltins(reg, n - 1, next_id),
                  WithId(Builtins[n], next_id + n - 1))

\* a bootstrap that adds its checkers at the end whatever is registered
register_builtin_checkers_Append(reg, next_id) ==
    reg \o [i \in 1..Len(Builtins) |-> WithId(Builtins[i], next_id + i - 1)]

\* register_builtin_checkers: ten register calls with new objects
register_builtin_checkers(reg, next_id) ==
    RegisterBuiltins(reg, Len(Builtins), next_id)

\* the objects one register_builtin_checkers call hands to register
BuiltinObjects(next_id) ==
    [i \in 1..Len(Builtins) |-> WithId(Builtins[i], next_id + i - 1)]

\* a custom checker: no command, no config files
CustomChecker(name, id) ==
    [name |-> name, kind |-> "custom", command |-> "", args |-> <<>>,
     description |-> "Custom checker", config_files |-> <<>>, id |-> id]

\* names custom checkers register under: one of a built-in, one of their own
CustomNames == {"black", "todo"}

\* register calls after the import: bootstraps and custom registrations
MaxCalls == 4

\* register_builtin_checkers calls so far; radon is registered by them only
BootstrapCalls ==
    Cardinality({ i \in 1..Len(registered) : registered[i].name = "radon" })

CallsAfterImport ==
    (BootstrapCalls - 1) + (Len(registered) - Len(Builtins) * BootstrapCalls)

\* pycc.core has been imported: its last line called the bootstrap
InitBuiltins ==
    /\ checkers = register_builtin_checkers(<<>>, 1)
    /\ pc = "imported"
    /\ results = <<>>
    /\ MainIdle
    /\ registered = BuiltinObjects(1)
    /\ snapshot = NoSnapshot
    /\ description = <<>>
    /\ available_result = NoAvailable
    /\ probed = [reg |-> <<>>, f |-> <<>>]
    /\ report = NoReport
    /\ selected_categories = {}
    /\ category_checkers = <<>>

\* register_builtin_checkers() called again
RegisterBuiltinsAgain ==
    /\ pc = "imported"
    /\ CallsAfterImport < MaxCalls
    /\ checkers' = register_builtin_checkers(checkers, Len(registered) + 1)
    /\ registered' = registered \o BuiltinObjects(Len(registered) + 1)
    /\ UNCHANGED <<idleVars, snapshot, description, available_result, probed>>

\* registry.register(custom checker)
RegisterCustom(n) ==
    /\ pc = "imported"
    /\ CallsAfterImport < MaxCalls
    /\ checkers' = register(checkers, CustomChecker(n, Len(registered) + 1))
    /\ registered' = Append(registered,
                            CustomChecker(n, Len(registered) + 1))
    /\ UNCHANGED <<idleVars, snapshot, description, available_result, probed>>

NextBuiltins ==
    \/ RegisterBuiltinsAgain
    \/ \E n \in CustomNames : RegisterCustom(n)

SpecBuiltins == InitBuiltins /\ [][NextBuiltins]_vars

\* ------------------------------------------------------------------ C21
\* C21: a second or later call of register_builtin_checkers leaves the
\* registry with the same names, each built-in name with the description,
\* command and arguments it had after the first call, and every other
\* entry as it was
C21_BootstrapIsIdempotent ==
    [][RegisterBuiltinsAgain =>
         /\ RegistryNames(get_all_checkers(checkers')) =
              RegistryNames(get_all_checkers(checkers))
         /\ \A i \in 1..Len(Builtins) :
              ContentOf(get_checker(checkers', Builtins[i].name)) =
                 ContentOf(Builtins[i])
         /\ \A n \in Range(RegistryNames(checkers)) \ BuiltinNames :
              get_checker(checkers', n) = get_checker(checkers, n)]_vars

C21_Witness ==
    /\ BootstrapCalls = 2
    /\ Len(registered) = 2 * Len(Builtins)
    /\ Len(checkers) = Len(Builtins)
    /\ get_checker(checkers, "black").id = Len(Builtins) + 1
    /\ \A i \in 1..Len(Builtins) : ContentOf(checkers[i]) = Builtins[i]

\* ------------------------------------------------------------------ C28
\* the names list_checkers prints under CUSTOM CHECKS: the registered names
\* that no category lists
list_checkers_custom(reg) ==
    SelectNames(RegistryNames(reg),
                Range(RegistryNames(reg)) \ NamesOfCategories(Categories))

\* the categories that list a name
CategoriesOf(n) ==
    { c \in Categories : n \in Range(get_checkers_by_category[c]) }

\* C28: every name of the category table is registered, so it is never
\* 'not found', every built-in name is listed by exactly one category,
\* once, and list_checkers shows no built-in under CUSTOM CHECKS
C28_CategoriesMatchBuiltins ==
    /\ \A c \in Categories :
         \A i \in 1..Len(get_checkers_by_category[c]) :
            LET n == get_checkers_by_category[c][i] IN
            /\ get_checker(checkers, n) # None
            /\ n \in BuiltinNames
            /\ FilterOutcome(n, get_all_checkers(checkers), {}) # "not_found"
    /\ \A n \in BuiltinNames :
         /\ Cardinality(CategoriesOf(n)) = 1
         /\ \A c \in CategoriesOf(n) :
              Count(get_checkers_by_category[c], n) = 1
    /\ Range(list_checkers_custom(checkers)) \cap BuiltinNames = {}

C28_Witness ==
    /\ list_checkers_custom(checkers) = <<"todo">>
    /\ get_checker(checkers, "black").kind = "custom"
    /\ NamesOfCategories(Categories) = BuiltinNames

\* ------------------------------------------------------- config generation
\* the file names of the project directory that are looked at: the ones the
\* built-ins declare, the three generate_all always makes, and one more
FileNames == {"pyproject.toml", ".flake8", ".bandit", "setup.cfg",
              "requirements-dev.txt", "tox.ini"}

\* a file is absent, or it exists with a content: a sequence of pieces of
\* text
Absent == [exists |-> FALSE, content |-> <<>>]
File(content) == [exists |-> TRUE, content |-> content]

\* a file the user had before
UserFile == File(<<"user content">>)

\* content.strip() is empty
IsBlank(content) == content \in {"", " "}

\* _collect_config_files, the loop body: self.config_files is a dict from
\* file name to the list of the configs declared for it, kept in the order
\* in which the names come up
AddConfig(d, config) ==
    IF \E i \in 1..Len(d) : d[i].name = config.name
    THEN [i \in 1..Len(d) |->
            IF d[i].name = config.name
            THEN [d[i] EXCEPT !.configs = Append(@, config)]
            ELSE d[i]]
    ELSE Append(d, [name |-> config.name, configs |-> <<config>>])

\* the configs of all checkers, in registry order
RECURSIVE AllConfigs(_)
AllConfigs(reg) ==
    IF reg = <<>> THEN <<>>
    ELSE Head(reg).config_files \o AllConfigs(Tail(reg))

RECURSIVE AddConfigs(_, _)
AddConfigs(d, configs) ==
    IF configs = <<>> THEN d
    ELSE AddConfigs(AddConfig(d, Head(configs)), Tail(configs))

\* ConfigGenerator._collect_config_files
collect_config_files(reg) ==
    AddConfigs(<<>>, AllConfigs(get_all_checkers(reg)))

\* the start of a merged pyproject.toml
PyprojectHeader == "[build-system] [project] [tool.setuptools.packages.find]"

\* the tool sections of the merged file: every config whose content is not
\* blank, followed by a newline
RECURSIVE Sections(_)
Sections(configs) ==
    IF configs = <<>> THEN <<>>
    ELSE (IF IsBlank(Head(configs).content) THEN <<>>
          ELSE <<Head(configs).content, "\n">>)
         \o Sections(Tail(configs))

\* a merge that takes the first config only
merge_pyproject_configs_FirstOnly(configs) ==
    <<PyprojectHeader>> \o Sections(<<configs[1]>>)

\* ConfigGenerator._merge_pyproject_configs
merge_pyproject_configs(configs) == <<PyprojectHeader>> \o Sections(configs)

\* open(file_path, 'w').write(content) and the line that reports it; w is
\* the directory and the output so far
WriteFile(w, filename, content) ==
    [files |-> [w.files EXCEPT ![filename] = File(content)],
     out |-> Append(w.out, <<"Generated:", filename>>)]

\* the content _generate_file writes
FileContent(filename, configs) ==
    IF filename = "pyproject.toml"
    THEN merge_pyproject_configs(configs)
    ELSE <<configs[1].content>>

ExistsWarning(filename) ==
    <<"Warning:", filename, "already", "exists,", "skipping...">>

\* a _generate_file that does not look whether the file exists
generate_file_Overwrite(w, filename, configs) ==
    WriteFile(w, filename, FileContent(filename, configs))

\* ConfigGenerator._generate_file
generate_file(w, filename, configs) ==
    IF w.files[filename].exists
    THEN [w EXCEPT !.out = Append(@, ExistsWarning(filename))]
    ELSE WriteFile(w, filename, FileContent(filename, configs))

\* _generate_pyproject_toml, _generate_setup_cfg and
\* _generate_requirements_dev_txt: a fixed content, unless the file exists
GenerateFixed(w, filename, content) ==
    IF w.files[filename].exists THEN w
    ELSE WriteFile(w, filename, <<content>>)

generate_pyproject_toml(w) ==
    GenerateFixed(w, "pyproject.toml", "[build-system] [project] [tool.*]")
generate_setup_cfg(w) ==
    GenerateFixed(w, "setup.cfg", "[metadata] [pycodestyle] [pydocstyle]")
generate_requirements_dev_txt(w) ==
    GenerateFixed(w, "requirements-dev.txt", "# Development dependencies")

\* generate_all, the loop over self.config_files.items()
RECURSIVE GenerateFiles(_, _)
GenerateFiles(w, d) ==
    IF d = <<>> THEN w
    ELSE GenerateFiles(generate_file(w, Head(d).name, Head(d).configs),
                       Tail(d))

\* ConfigGenerator.generate_all
generate_all(fs, d) ==
    LET begun == [files |-> fs,
                  out |-> << <<"Generating", "configuration", "files...">> >>]
        done == generate_requirements_dev_txt(
                  generate_setup_cfg(
                    generate_pyproject_toml(GenerateFiles(begun, d))))
    IN  [done EXCEPT !.out = Append(@, <<"Configuration", "files",
                                         "generated", "successfully!">>)]

\* a custom checker declares at most this many config files
MaxCustomConfigs == 1

\* the configs a custom checker declares: names the built-ins share, a
\* name of generate_all's own, a new name, and a blank content
CustomConfigs ==
    { Config(".flake8", "[custom]"), Config("pyproject.toml", "[tool.custom]"),
      Config("pyproject.toml", " "), Config("setup.cfg", "[custom]"),
      Config("tox.ini", "[tox]") }

\* a custom checker whose get_config_files() returns configs
ConfigChecker(name, configs) ==
    [name |-> name, kind |-> "custom", command |-> "", args |-> <<>>,
     description |-> "Custom checker", config_files |-> configs,
     id |-> Len(Builtins) + 1]

\* the registries config generation is tried with: the built-ins; the
\* built-ins and a custom checker, under a name of its own or a built-in's;
\* custom checkers without config files under every built-in name
ConfigRegistries ==
    { register_builtin_checkers(<<>>, 1) }
    \cup { register(register_builtin_checkers(<<>>, 1), ConfigChecker(n, cs)) :
             n \in CustomNames,
             cs \in SeqsUpTo(CustomConfigs, MaxCustomConfigs) }
    \cup { [i \in 1..Len(Builtins) |->
              CustomChecker(Builtins[i].name, Len(Builtins) + i)] }

\* main is about to make ConfigGenerator(project_path); the directory holds
\* any of the files already
InitConfig ==
    /\ checkers \in ConfigRegistries
    /\ pc = "generate_config"
    /\ results = <<>>
    /\ ProcessIdle
    /\ RegistryIdle
    /\ report = NoReport
    /\ selected_categories = {}
    /\ category_checkers = <<>>
    /\ files \in [FileNames -> {Absent, UserFile}]
    /\ files_before = files
    /\ config_files = <<>>

\* ConfigGenerator(project_path)
NewConfigGenerator ==
    /\ pc = "generate_config"
    /\ config_files' = collect_config_files(checkers)
    /\ pc' = "collected"
    /\ UNCHANGED <<checkers, args, exitCode, checker_names, runner, runVars,
                   project_path, report, selected_categories,
                   category_checkers, registered, snapshot, description,
                   available_result, probed, files, files_before>>

\* config_gen.generate_all(), the first and a second time; printed holds
\* the output of the call
GenerateAll ==
    /\ pc \in {"collected", "generated_once"}
    /\ LET w == generate_all(files, config_files) IN
         /\ files' = w.files
         /\ printed' = w.out
    /\ files_before' = files
    /\ pc' = IF pc = "collected" THEN "generated_once" ELSE "generated_twice"
    /\ UNCHANGED <<checkers, args, exitCode, checker_names, runner,
                   all_checkers, available_checkers, filterIdx,
                   checkers_to_run, runIdx, behaviour, results, checkCalls,
                   probeCalls, project_path, report, selected_categories,
                   category_checkers, registered, snapshot, description,
                   available_result, probed, config_files>>

NextConfig ==
    \/ NewConfigGenerator
    \/ GenerateAll

SpecConfig == InitConfig /\ [][NextConfig]_vars

\* generate_all has returned
Generated == pc \in {"generated_once", "generated_twice"}

\* the file names some registered checker declares
DeclaredNames ==
    { AllConfigs(checkers)[i].name : i \in 1..Len(AllConfigs(checkers)) }

\* ------------------------------------------------------------------ C22
\* C22: generate_all overwrites nothing: every file that exists when it
\* starts has the same content when it returns, and every checker-declared
\* file that exists when it starts is reported with a warning
C22_NeverOverwrites ==
    Generated =>
        /\ \A f \in FileNames :
             files_before[f].exists => files[f] = files_before[f]
        /\ \A f \in DeclaredNames :
             files_before[f].exists
                => \E i \in 1..Len(printed) : printed[i] = ExistsWarning(f)

C22_Witness ==
    /\ pc = "generated_once"
    /\ files_before[".flake8"] = UserFile
    /\ files[".flake8"] = UserFile
    /\ \E i \in 1..Len(printed) : printed[i] = ExistsWarning(".flake8")
    /\ ~files_before[".bandit"].exists
    /\ files[".bandit"] = File(<<"exclude_dirs:">>)

\* ------------------------------------------------------------------ C29
\* the configs declared for a file name, in registry order
DeclaredFor(f) == SelectSeq(AllConfigs(checkers), LAMBDA c : c.name = f)

\* the non-blank contents declared for a file name, in registry order
SectionsFor(f) ==
    LET kept == SelectSeq(DeclaredFor(f), LAMBDA c : ~IsBlank(c.content))
    IN  [i \in 1..Len(kept) |-> kept[i].content]

\* the pieces of a file's content that are declared sections
SectionsIn(content) ==
    SelectSeq(content, LAMBDA piece : piece \notin {PyprojectHeader, "\n"})

\* the files generate_all has to leave behind
RequiredNames ==
    {"pyproject.toml", "setup.cfg", "requirements-dev.txt"} \cup DeclaredNames

\* after generate_all the required files exist, and a second generate_all
\* changes and creates nothing
GenerateAllIsIdempotent ==
    /\ Generated => \A f \in RequiredNames : files[f].exists
    /\ pc = "generated_twice" => files = files_before

\* C29 as stated: generate_all is idempotent, and from any directory state
\* pyproject.toml holds every declaring checker's non-blank section once in
\* registry order and any other shared file the first declared content
C29_IdempotentWithMergedContent ==
    /\ GenerateAllIsIdempotent
    /\ Generated =>
         \A f \in DeclaredNames :
            IF f = "pyproject.toml"
            THEN SectionsIn(files[f].content) = SectionsFor(f)
            ELSE files[f].content = <<DeclaredFor(f)[1].content>>

\* C29: generate_all is idempotent, and a declared file that generate_all
\* creates holds, for pyproject.toml, every declaring checker's non-blank
\* section once in registry order and, for any other name, the first
\* declared content; a file that existed before keeps its content
C29_IdempotentAndMergedWhenCreated ==
    /\ GenerateAllIsIdempotent
    /\ pc = "generated_once" =>
         \A f \in DeclaredNames :
            IF files_before[f].exists THEN files[f] = files_before[f]
            ELSE IF f = "pyproject.toml"
            THEN SectionsIn(files[f].content) = SectionsFor(f)
            ELSE files[f].content = <<DeclaredFor(f)[1].content>>

C29_Witness ==
    /\ pc = "generated_twice"
    /\ files = files_before
    /\ files[".flake8"] = File(<<"[custom]">>)
    /\ files["setup.cfg"] = UserFile
    /\ SectionsIn(files["pyproject.toml"].content) =
         <<"[tool.isort]", "[tool.pylint.messages_control]", "[tool.mypy]",
           "[tool.pydocstyle]">>
    /\ files["requirements-dev.txt"].exists
    /\ ~files["tox.ini"].exists

====
